---- MODULE Spec2Model ----
(***************************************************************************)
(* Model of src/index.ts (ts-core-utils): pipe, pipeSafely, notEmpty,      *)
(* getSafely, getOrThrow, getOrElse, chunkArray and flatten.               *)
(*                                                                         *)
(* JavaScript values are records [t, v]; arrays and objects live in a heap *)
(* (a sequence of objects, a reference is an index into it), so that       *)
(* reference identity, shallow copies and in-place mutation are visible.   *)
(* Every exported function is an operator that returns a completion        *)
(* record: how the call ended (return / throw), the value or error, the    *)
(* heap after the call and the log of callback invocations it made.        *)
(***************************************************************************)
EXTENDS Integers, Sequences, FiniteSets, TLC

VARIABLES call, heap0, result

vars == <<call, heap0, result>>

(* ---------------------------- bounds ---------------------------------- *)
MaxLen == 3
MaxSteps == 3
MaxChunk == 3

(* ---------------------------- values ---------------------------------- *)
Undefined == [t |-> "undefined", v |-> 0]
Null == [t |-> "null", v |-> 0]
Num(n) == [t |-> "number", v |-> n]
Str(n) == [t |-> "string", v |-> n]
Bool(n) == [t |-> "boolean", v |-> n]
Ref(i) == [t |-> "ref", v |-> i]
NoProp == [t |-> "noprop", v |-> 0]

(* Function values: the built-in constructors Object and Array, the      *)
(* constructor of a caller-defined class, and some other function.       *)
ObjectConstructor == [t |-> "function", v |-> 0]

ArrayConstructor == [t |-> "function", v |-> 1]

ClassConstructor == [t |-> "function", v |-> 2]

OtherFunction == [t |-> "function", v |-> 3]

Keys == {"a", "b", "constructor"}

EmptyProps == [k \in Keys |-> NoProp]

ArrayObj(elems) == [kind |-> "array", proto |-> "Array", elems |-> elems, props |-> EmptyProps]

PlainObj(props) == [kind |-> "object", proto |-> "Object", elems |-> <<>>, props |-> props]

(* ------------------------- completions -------------------------------- *)
NoErr == "none"
TypeError == "TypeError"
ErrA == "ErrA"
ErrB == "ErrB"
UndefinedValueError == "getOrThrow - undefined value!"

Return(value, h, calls) == [kind |-> "return", value |-> value, err |-> NoErr, heap |-> h, calls |-> calls]

Throw(err, h, calls) == [kind |-> "throw", value |-> Undefined, err |-> err, heap |-> h, calls |-> calls]

Pending(h) == [kind |-> "pending", value |-> Undefined, err |-> NoErr, heap |-> h, calls |-> <<>>]

(* --------------------- JavaScript primitives -------------------------- *)
IsRef(value) == value.t = "ref"

isArray(value, h) == IsRef(value) /\ h[value.v].kind = "array"

typeof(value) ==
  IF value.t \in {"ref", "null"} THEN "object" ELSE value.t

ProtoConstructor(proto) ==
  CASE proto = "Object" -> ObjectConstructor
    [] proto = "Array" -> ArrayConstructor
    [] OTHER -> ClassConstructor

(* value.constructor: a property read. It throws on null and undefined,   *)
(* finds an own property first and the prototype's constructor otherwise. *)
GetConstructor(value, h) ==
  IF value.t \in {"null", "undefined"} THEN Throw(TypeError, h, <<>>)
  ELSE IF IsRef(value)
       THEN LET o == h[value.v]
            IN IF o.props["constructor"] # NoProp
               THEN Return(o.props["constructor"], h, <<>>)
               ELSE Return(ProtoConstructor(o.proto), h, <<>>)
       ELSE Return(OtherFunction, h, <<>>)

Alloc(h, obj) == Append(h, obj)

NewRef(h) == Ref(Len(h) + 1)

(* value.slice(0) *)
slice(value, h) == ArrayObj(h[value.v].elems)

(* { ...value } *)
spread(value, h) == PlainObj(h[value.v].props)

(* ----------------------- caller-supplied steps ------------------------ *)
Steps == {"inc", "dbl", "mutate", "failA", "failB"}

Snapshot(value, h) == IF IsRef(value) THEN h[value.v] ELSE ArrayObj(<<>>)

Invocation(f, arg, h) == [f |-> f, arg |-> arg, obj |-> Snapshot(arg, h)]

(* inc:    v => typeof v === 'number' ? v + 1 : v                         *)
(* dbl:    v => typeof v === 'number' ? v * 2 : v                         *)
(* mutate: v => { Array.isArray(v) ? v.push(7) : isObject(v) && (v.b = 7); return v } *)
(* failA:  v => { throw ErrA }      failB: v => { throw ErrB }            *)
Apply(f, arg, h) ==
  CASE f = "inc" -> Return(IF arg.t = "number" THEN Num(arg.v + 1) ELSE arg, h, <<>>)
    [] f = "dbl" -> Return(IF arg.t = "number" THEN Num(arg.v * 2) ELSE arg, h, <<>>)
    [] f = "mutate" ->
         IF ~IsRef(arg) THEN Return(arg, h, <<>>)
         ELSE IF h[arg.v].kind = "array"
              THEN Return(arg, [h EXCEPT ![arg.v].elems = Append(@, Num(7))], <<>>)
              ELSE Return(arg, [h EXCEPT ![arg.v].props["b"] = Num(7)], <<>>)
    [] f = "failA" -> Throw(ErrA, h, <<>>)
    [] OTHER -> Throw(ErrB, h, <<>>)

(* ------------------------------ pipe ---------------------------------- *)
(* A reduce that swallows a failing step and carries on with undefined.   *)
RECURSIVE reduce_swallow(_, _, _, _)
reduce_swallow(mapFuncs, value, h, calls) ==
  IF mapFuncs = <<>> THEN Return(value, h, calls)
  ELSE LET mapFunc == Head(mapFuncs)
           r == Apply(mapFunc, value, h)
           log == Append(calls, Invocation(mapFunc, value, h))
       IN reduce_swallow(Tail(mapFuncs), r.value, r.heap, log)

RECURSIVE reduce(_, _, _, _)
reduce(mapFuncs, value, h, calls) ==
  IF mapFuncs = <<>> THEN Return(value, h, calls)
  ELSE LET mapFunc == Head(mapFuncs)
           r == Apply(mapFunc, value, h)
           log == Append(calls, Invocation(mapFunc, value, h))
       IN IF r.kind = "throw" THEN Throw(r.err, r.heap, log)
          ELSE reduce(Tail(mapFuncs), r.value, r.heap, log)

pipe(value, mapFuncs, h) ==
  IF isArray(value, h)
  THEN reduce(mapFuncs, NewRef(h), Alloc(h, slice(value, h)), <<>>)
  ELSE IF typeof(value) = "object"
       THEN LET c == GetConstructor(value, h)
            IN IF c.kind = "throw" THEN Throw(c.err, h, <<>>)
               ELSE IF c.value = ObjectConstructor
                    THEN reduce(mapFuncs, NewRef(h), Alloc(h, spread(value, h)), <<>>)
                    ELSE reduce(mapFuncs, value, h, <<>>)
       ELSE reduce(mapFuncs, value, h, <<>>)

(* if (value !== undefined) *)
notEmpty_undefinedOnly(value) == value # Undefined

(* if (value) *)
notEmpty_truthy(value) == value \notin {Null, Undefined, Num(0), Str(0), Bool(0)}

notEmpty(value) == value # Null /\ value # Undefined

pipeSafely(value, mapFuncs, h) ==
  IF notEmpty(value) THEN pipe(value, mapFuncs, h)
  ELSE Return(Undefined, h, <<>>)

(* ------------------------- safe accessors ----------------------------- *)
(* An accessor either returns a value or raises.                          *)
InvokeCb(getCb, h) ==
  IF getCb.raises THEN Throw(getCb.err, h, <<Invocation("getCb", Undefined, h)>>)
  ELSE Return(getCb.v, h, <<Invocation("getCb", Undefined, h)>>)

(* try { return getCb() } without the returning finally block *)
getSafely_propagates(getCb, h) == InvokeCb(getCb, h)

(* let result; try { result = getCb() } finally { return result }         *)
getSafely(getCb, h) ==
  LET r == InvokeCb(getCb, h)
      res == IF r.kind = "return" THEN r.value ELSE Undefined
  IN Return(res, r.heap, r.calls)

(* if (!result) throw *)
getOrThrow_falsy(getCb, h) ==
  LET s == getSafely(getCb, h)
  IN IF s.kind = "throw" THEN s
     ELSE IF ~notEmpty_truthy(s.value) THEN Throw(UndefinedValueError, s.heap, s.calls)
          ELSE Return(s.value, s.heap, s.calls)

getOrThrow(getCb, h) ==
  LET s == getSafely(getCb, h)
  IN IF s.kind = "throw" THEN s
     ELSE IF s.value = Undefined THEN Throw(UndefinedValueError, s.heap, s.calls)
          ELSE Return(s.value, s.heap, s.calls)

(* return result || defaultValue *)
getOrElse_falsy(getCb, defaultValue, h) ==
  LET s == getSafely(getCb, h)
  IN IF s.kind = "throw" THEN s
     ELSE IF ~notEmpty_truthy(s.value) THEN Return(defaultValue, s.heap, s.calls)
          ELSE Return(s.value, s.heap, s.calls)

getOrElse(getCb, defaultValue, h) ==
  LET s == getSafely(getCb, h)
  IN IF s.kind = "throw" THEN s
     ELSE IF s.value = Undefined THEN Return(defaultValue, s.heap, s.calls)
          ELSE Return(s.value, s.heap, s.calls)

(* --------------------- chunkArray and flatten ------------------------- *)
Min(a, b) == IF a < b THEN a ELSE b

(* Math.floor(a / b) *)
ceil_floor(a, b) == a \div b

(* Math.ceil(a / b) for a >= 0, b > 0 *)
ceil(a, b) == IF a % b = 0 THEN a \div b ELSE (a \div b) + 1

(* results.push(arrayClone.splice(0, chunkSize)) for i = 0 .. numOfChunks-1 *)
RECURSIVE chunkLoop(_, _, _, _, _, _)
chunkLoop(i, numOfChunks, results, arrayClone, chunkSize, h) ==
  IF i < numOfChunks
  THEN LET elems == h[arrayClone.v].elems
           n == Min(chunkSize, Len(elems))
           removed == SubSeq(elems, 1, n)
           h1 == [h EXCEPT ![arrayClone.v].elems = SubSeq(elems, n + 1, Len(elems))]
           chunk == NewRef(h1)
           h2 == Alloc(h1, ArrayObj(removed))
           h3 == [h2 EXCEPT ![results.v].elems = Append(@, chunk)]
       IN chunkLoop(i + 1, numOfChunks, results, arrayClone, chunkSize, h3)
  ELSE Return(results, h, <<>>)

chunkArray(array, chunkSize, h) ==
  LET results == NewRef(h)
      h1 == Alloc(h, ArrayObj(<<>>))
      arrayClone == NewRef(h1)
      h2 == Alloc(h1, slice(array, h1))
      numOfChunks == ceil(Len(h2[arrayClone.v].elems), chunkSize)
  IN chunkLoop(0, numOfChunks, results, arrayClone, chunkSize, h2)

(* Array.prototype.concat: an array argument contributes its elements,    *)
(* any other argument contributes itself.                                 *)
RECURSIVE concat(_, _, _)
concat(acc, args, h) ==
  IF args = <<>> THEN acc
  ELSE LET x == Head(args)
       IN concat(IF isArray(x, h) THEN acc \o h[x.v].elems ELSE Append(acc, x), Tail(args), h)

(* ([] as T[]).concat(...nestedArrays) *)
flatten(nestedArrays, h) ==
  Return(NewRef(h), Alloc(h, ArrayObj(concat(<<>>, h[nestedArrays.v].elems, h))), <<>>)

(* ------------------------- inputs of the calls ------------------------ *)
RECURSIVE SeqsUpTo(_, _)
SeqsUpTo(S, n) ==
  IF n = 0 THEN {<<>>}
  ELSE LET shorter == SeqsUpTo(S, n - 1)
       IN shorter \cup {Append(q, x) : q \in shorter, x \in S}

Elems == {Num(0), Num(1)}

CallerArrays == {ArrayObj(e) : e \in SeqsUpTo(Elems, MaxLen)}

CallerProps ==
  {[k \in Keys |-> IF k = "a" THEN a ELSE IF k = "constructor" THEN c ELSE NoProp] :
     a \in {NoProp, Num(1)}, c \in {NoProp, Num(1), ObjectConstructor}}

CallerObjects ==
  {[kind |-> "object", proto |-> p, elems |-> <<>>, props |-> ps] :
     p \in {"Object", "Class"}, ps \in CallerProps}

(* The caller owns one array or object, at reference 1. *)
CallerRef == Ref(1)

InitialHeaps == {<<o>> : o \in CallerArrays \cup CallerObjects}

InputValues ==
  {Undefined, Null, Num(0), Num(1), Str(0), Bool(0), OtherFunction, CallerRef}

StepSeqs == SeqsUpTo(Steps, MaxSteps)

Accessors ==
  {[raises |-> FALSE, v |-> x, err |-> NoErr] : x \in InputValues}
    \cup {[raises |-> TRUE, v |-> Undefined, err |-> e] : e \in {ErrA, ErrB}}

NoCb == [raises |-> FALSE, v |-> Undefined, err |-> NoErr]

Call(fn, value, mapFuncs, getCb, defaultValue, chunkSize) ==
  [fn |-> fn, value |-> value, mapFuncs |-> mapFuncs, getCb |-> getCb,
   defaultValue |-> defaultValue, chunkSize |-> chunkSize]

NoCall == Call("none", Undefined, <<>>, NoCb, Undefined, 0)

(* --------------------------- state machine ---------------------------- *)
Init ==
  /\ call = NoCall
  /\ heap0 \in InitialHeaps
  /\ result = Pending(heap0)

CallPipe ==
  /\ call.fn = "none"
  /\ \E value \in InputValues, mapFuncs \in StepSeqs :
       /\ call' = Call("pipe", value, mapFuncs, NoCb, Undefined, 0)
       /\ result' = pipe(value, mapFuncs, heap0)
  /\ UNCHANGED heap0

CallPipeSafely ==
  /\ call.fn = "none"
  /\ \E value \in InputValues, mapFuncs \in StepSeqs :
       /\ call' = Call("pipeSafely", value, mapFuncs, NoCb, Undefined, 0)
       /\ result' = pipeSafely(value, mapFuncs, heap0)
  /\ UNCHANGED heap0

CallGetSafely ==
  /\ call.fn = "none"
  /\ \E getCb \in Accessors :
       /\ call' = Call("getSafely", Undefined, <<>>, getCb, Undefined, 0)
       /\ result' = getSafely(getCb, heap0)
  /\ UNCHANGED heap0

CallGetOrThrow ==
  /\ call.fn = "none"
  /\ \E getCb \in Accessors :
       /\ call' = Call("getOrThrow", Undefined, <<>>, getCb, Undefined, 0)
       /\ result' = getOrThrow(getCb, heap0)
  /\ UNCHANGED heap0

CallGetOrElse ==
  /\ call.fn = "none"
  /\ \E getCb \in Accessors, defaultValue \in InputValues :
       /\ call' = Call("getOrElse", Undefined, <<>>, getCb, defaultValue, 0)
       /\ result' = getOrElse(getCb, defaultValue, heap0)
  /\ UNCHANGED heap0

CallChunkArray ==
  /\ call.fn = "none"
  /\ isArray(CallerRef, heap0)
  /\ \E chunkSize \in 1..MaxChunk :
       /\ call' = Call("chunkArray", CallerRef, <<>>, NoCb, Undefined, chunkSize)
       /\ result' = chunkArray(CallerRef, chunkSize, heap0)
  /\ UNCHANGED heap0

(* flatten applied to what chunkArray returned *)
CallFlatten ==
  /\ call.fn = "chunkArray"
  /\ result.kind = "return"
  /\ call' = Call("flatten", result.value, <<>>, NoCb, Undefined, call.chunkSize)
  /\ result' = flatten(result.value, result.heap)
  /\ UNCHANGED heap0

Next ==
  \/ CallPipe
  \/ CallPipeSafely
  \/ CallGetSafely
  \/ CallGetOrThrow
  \/ CallGetOrElse
  \/ CallChunkArray
  \/ CallFlatten

Spec == Init /\ [][Next]_vars

(* ===================== vocabulary of the properties =================== *)
Absent == {Null, Undefined}

IsPlainMapping(value, h) ==
  IsRef(value) /\ h[value.v].kind = "object" /\ h[value.v].proto = "Object"

IsComposite(value, h) == isArray(value, h) \/ IsPlainMapping(value, h)

FailingSteps == {"failA", "failB"}

StepError(f) == IF f = "failA" THEN ErrA ELSE ErrB

SameContents(o1, o2) == o1.kind = o2.kind /\ o1.elems = o2.elems /\ o1.props = o2.props

(* the contents of the array a returned value refers to *)
ElemsOf(value, h) == h[value.v].elems

(* ------------------------------ C1 ------------------------------------ *)
(* C1: for every initial value and every n >= 1 steps that all return     *)
(* normally, pipe invokes each step exactly once, in the supplied order,  *)
(* each on the previous step's output (the first on the possibly copied   *)
(* initial value), and returns the output of the last step.               *)
C1_PipeAppliesStepsInOrder ==
  (call.fn = "pipe" /\ Len(call.mapFuncs) >= 1
     /\ \A i \in 1..Len(call.mapFuncs) : call.mapFuncs[i] \notin FailingSteps)
  => LET calls == result.calls
         n == Len(call.mapFuncs)
     IN /\ result.kind = "return"
        /\ Len(calls) = n
        /\ \A i \in 1..n : calls[i].f = call.mapFuncs[i]
        /\ \/ calls[1].arg = call.value
           \/ /\ IsRef(calls[1].arg) /\ IsRef(call.value)
              /\ SameContents(calls[1].obj, heap0[call.value.v])
        /\ \A i \in 2..n :
             calls[i].arg = Apply(calls[i - 1].f, calls[i - 1].arg, result.heap).value
        /\ result.value = Apply(calls[n].f, calls[n].arg, result.heap).value

(* ------------------------------ C2 ------------------------------------ *)
(* C2: when the initial value of pipe is an array or a plain key-value    *)
(* mapping, the first step receives (and with zero steps pipe returns) a  *)
(* new array/mapping with the same top-level contents and a different     *)
(* reference, and the caller's input is the same after the call.          *)
C2_PipeCopiesCompositeInput ==
  (call.fn = "pipe" /\ IsComposite(call.value, heap0))
  => LET first == IF call.mapFuncs = <<>> THEN result.value ELSE result.calls[1].arg
         firstObj == IF call.mapFuncs = <<>> THEN result.heap[result.value.v]
                     ELSE result.calls[1].obj
     IN /\ call.mapFuncs = <<>> => result.kind = "return"
        /\ IsRef(first)
        /\ first # call.value
        /\ SameContents(firstObj, heap0[call.value.v])
        /\ result.heap[call.value.v] = heap0[call.value.v]

(* ------------------------------ C3 ------------------------------------ *)
(* C3: for every initial value that is neither an array nor a plain       *)
(* mapping (null and undefined included) pipe makes no copy and does not  *)
(* fail in its guard: with zero steps it returns that very value, with    *)
(* steps the first step receives that very value.                         *)
C3_PipePassesOtherValuesThrough ==
  (call.fn = "pipe" /\ ~IsComposite(call.value, heap0))
  => /\ call.mapFuncs = <<>> =>
          (result.kind = "return" /\ result.value = call.value /\ result.heap = heap0)
     /\ call.mapFuncs # <<>> =>
          (Len(result.calls) >= 1 /\ result.calls[1].arg = call.value
             /\ Len(result.heap) = Len(heap0))

(* ------------------------------ C4 ------------------------------------ *)
(* C4: for an absent initial value (null or undefined) and any steps,     *)
(* pipeSafely returns an absent result and invokes none of the steps.     *)
C4_PipeSafelyShortCircuits ==
  (call.fn = "pipeSafely" /\ call.value \in Absent)
  => /\ result.kind = "return"
     /\ result.value \in Absent
     /\ result.calls = <<>>
     /\ result.heap = heap0

C4_Witness ==
  /\ call.fn = "pipeSafely"
  /\ call.value = Null
  /\ Len(call.mapFuncs) = MaxSteps
  /\ result.kind = "return"
  /\ result.value = Undefined

(* ------------------------------ C5 ------------------------------------ *)
(* C5: for every present initial value (falsy ones such as 0, '' and      *)
(* false included) pipeSafely has exactly the outcome of pipe on the same *)
(* arguments: same returned value, same invocations, same failure.        *)
C5_PipeSafelyEqualsPipeOnPresent ==
  (call.fn = "pipeSafely" /\ call.value \notin Absent)
  => result = pipe(call.value, call.mapFuncs, heap0)

C5_Witness ==
  /\ call.fn = "pipeSafely"
  /\ call.value = Num(0)
  /\ call.mapFuncs = <<"inc", "dbl">>
  /\ result.kind = "return"
  /\ result.value = Num(2)

(* ------------------------------ C6 ------------------------------------ *)
(* C6: getSafely never raises; it invokes the accessor once, returns the  *)
(* accessor's value when the accessor returns normally and undefined when *)
(* the accessor raises.                                                   *)
C6_GetSafelyNeverRaises ==
  call.fn = "getSafely"
  => /\ result.kind = "return"
     /\ Len(result.calls) = 1
     /\ ~call.getCb.raises => result.value = call.getCb.v
     /\ call.getCb.raises => result.value = Undefined

C6_Witness ==
  /\ call.fn = "getSafely"
  /\ call.getCb.raises
  /\ result.kind = "return"
  /\ result.value = Undefined

(* ------------------------------ C7 ------------------------------------ *)
(* C7 as stated: getOrThrow fails with the fixed error whenever the       *)
(* accessor returned null or undefined or raised, otherwise returns the   *)
(* accessor's value; it never returns null or undefined.                  *)
C7_Original ==
  call.fn = "getOrThrow"
  => /\ (call.getCb.raises \/ call.getCb.v \in Absent)
          => (result.kind = "throw" /\ result.err = UndefinedValueError)
     /\ ~(call.getCb.raises \/ call.getCb.v \in Absent)
          => (result.kind = "return" /\ result.value = call.getCb.v)
     /\ result.kind = "return" => result.value \notin Absent

(* C7 amended: getOrThrow fails with the fixed error whenever the         *)
(* accessor returned undefined or raised, otherwise returns the           *)
(* accessor's value (null included); it never returns undefined.          *)
C7_GetOrThrow ==
  call.fn = "getOrThrow"
  => /\ (call.getCb.raises \/ call.getCb.v = Undefined)
          => (result.kind = "throw" /\ result.err = UndefinedValueError)
     /\ ~(call.getCb.raises \/ call.getCb.v = Undefined)
          => (result.kind = "return" /\ result.value = call.getCb.v)
     /\ result.kind = "return" => result.value # Undefined

C7_Witness ==
  /\ call.fn = "getOrThrow"
  /\ call.getCb.raises
  /\ result.kind = "throw"
  /\ result.err = UndefinedValueError

(* ------------------------------ C8 ------------------------------------ *)
(* C8 as stated: for a present default, getOrElse never raises and never  *)
(* returns null or undefined: the accessor's value when present, the      *)
(* default when the accessor's result is absent or the accessor raised.   *)
C8_Original ==
  (call.fn = "getOrElse" /\ call.defaultValue \notin Absent)
  => /\ result.kind = "return"
     /\ result.value \notin Absent
     /\ (~call.getCb.raises /\ call.getCb.v \notin Absent) => result.value = call.getCb.v
     /\ (call.getCb.raises \/ call.getCb.v \in Absent) => result.value = call.defaultValue

(* C8 amended: for a present default, getOrElse never raises and never    *)
(* returns undefined: the accessor's value when it is not undefined (null *)
(* included), the default when the accessor returned undefined or raised. *)
C8_GetOrElse ==
  (call.fn = "getOrElse" /\ call.defaultValue \notin Absent)
  => /\ result.kind = "return"
     /\ result.value # Undefined
     /\ (~call.getCb.raises /\ call.getCb.v # Undefined) => result.value = call.getCb.v
     /\ (call.getCb.raises \/ call.getCb.v = Undefined) => result.value = call.defaultValue

C8_Witness ==
  /\ call.fn = "getOrElse"
  /\ call.getCb.raises
  /\ call.defaultValue = Num(1)
  /\ result.kind = "return"
  /\ result.value = Num(1)

(* ------------------------------ C9 ------------------------------------ *)
(* C9: if step f_k of a pipe call (or of a pipeSafely call on a present   *)
(* value) fails, the steps before it have each run once in order, no step *)
(* after it is invoked, and the call ends with that same failure.         *)
C9_StepFailurePropagates ==
  call.fn \in {"pipe", "pipeSafely"}
  => LET calls == result.calls
     IN /\ Len(calls) <= Len(call.mapFuncs)
        /\ \A i \in 1..Len(calls) : calls[i].f = call.mapFuncs[i]
        /\ \A k \in 1..Len(calls) :
             calls[k].f \in FailingSteps
             => /\ k = Len(calls)
                /\ result.kind = "throw"
                /\ result.err = StepError(calls[k].f)
                /\ \A i \in 1..(k - 1) : calls[i].f \notin FailingSteps

C9_Witness ==
  /\ call.fn = "pipeSafely"
  /\ call.value = CallerRef
  /\ call.mapFuncs = <<"mutate", "failB", "failA">>
  /\ Len(result.calls) = 2
  /\ result.kind = "throw"
  /\ result.err = ErrB

(* ------------------------------ C10 ----------------------------------- *)
(* C10: for an array a and a positive chunkSize, chunkArray returns       *)
(* ceil(length(a)/chunkSize) chunks, all of chunkSize elements except     *)
(* the last, which holds between 1 and chunkSize; flatten of the chunks   *)
(* is a; the array a itself is left unmodified.                           *)
C10_ChunkArrayPartitions ==
  /\ call.fn = "chunkArray"
     => LET a == heap0[CallerRef.v].elems
            chunks == ElemsOf(result.value, result.heap)
            n == Len(chunks)
        IN /\ result.kind = "return"
           /\ n * call.chunkSize >= Len(a)
           /\ (n - 1) * call.chunkSize < Len(a)
           /\ \A i \in 1..(n - 1) : Len(ElemsOf(chunks[i], result.heap)) = call.chunkSize
           /\ n >= 1 => Len(ElemsOf(chunks[n], result.heap)) \in 1..call.chunkSize
           /\ result.heap[CallerRef.v] = heap0[CallerRef.v]
  /\ call.fn = "flatten"
     => /\ result.kind = "return"
        /\ ElemsOf(result.value, result.heap) = heap0[CallerRef.v].elems
        /\ result.heap[CallerRef.v] = heap0[CallerRef.v]

C10_Witness ==
  /\ call.fn = "flatten"
  /\ call.chunkSize = 2
  /\ Len(heap0[CallerRef.v].elems) = 3
  /\ Len(ElemsOf(call.value, result.heap)) = 2
  /\ Len(ElemsOf(result.value, result.heap)) = 3

====
